---- MODULE Spec2Model ----
(***************************************************************************)
(* redislock: a mutual-exclusion lock whose state lives in a redis key.    *)
(*                                                                         *)
(* The model follows lib/lock.js (the revision with acquire / release /    *)
(* extend and the two lua scripts of lib/scripts.js).  Every Lock method   *)
(* is asynchronous: the call itself runs the promise executor (the         *)
(* precondition check and the sending of the redis command), the redis     *)
(* server then executes the command atomically, and the reply is handled   *)
(* by the .then/.catch chain of the method.  These three moments are three *)
(* actions, so calls of different instances, lease expiry in the store and *)
(* writes of other redis clients interleave between them.                  *)
(*                                                                         *)
(* Time is the store's clock: one Tick lowers every lease by one unit and  *)
(* removes the keys whose lease ends.  An error reply of the store leaves  *)
(* the store as it is.  The calls on one instance are serialized by the    *)
(* caller, as the library requires: an instance has one call in flight.    *)
(* The variable result is the outcome handed to the caller by the step     *)
(* that settles a call; every other step sets it back to NoResult.         *)
(***************************************************************************)
EXTENDS Integers, FiniteSets, Sequences, TLC

(***************************************************************************)
(* Bounds of the model.                                                    *)
(***************************************************************************)
MaxTimeout == 2      \* the longest instance timeout, in ticks of the store's clock
MaxRetries == 1      \* instance retries range over -1..MaxRetries
MaxUnbounded == 1    \* re-attempts explored for a negative retries counter
MaxTime == 2         \* extend is called with times up to MaxTime

Locks == {"L1", "L2"}
Keys == {"k1", "k2"}

(***************************************************************************)
(* Values.                                                                 *)
(***************************************************************************)
\* this._key = null of an unlocked instance
Null == "null"

\* uuid.v1(): a token no other call returns
v1(l) == "uuid-" \o l

\* javascript values passed as the time argument and in options: a number without
\* fractional part (v), a number with one (v its integer part), a string
\* of digits (v the number it spells), undefined, NaN
Number(n) == [type |-> "number", v |-> n]
Fraction(n) == [type |-> "fraction", v |-> n]
String(n) == [type |-> "string", v |-> n]
Undefined == [type |-> "undefined", v |-> 0]
NaN == [type |-> "NaN", v |-> 0]

\* null, a string that spells no number, and a key an object does not have
JsNull == [type |-> "null", v |-> 0]
Text == [type |-> "text", v |-> 0]
Absent == [type |-> "absent", v |-> 0]

\* parseInt(time, 10)
parseInt(time) ==
  IF time.type \in {"number", "fraction", "string"}
    THEN Number(time.v)
    ELSE NaN

\* !time
Not(time) ==
  \/ time.type \in {"undefined", "NaN"}
  \/ time.type = "number" /\ time.v = 0

\* time !== parseInt(time, 10)
StrictNotEqual(a, b) == a.type = "NaN" \/ b.type = "NaN" \/ a # b

\* the modules that run the scripts: redis-evalsha, which has the server
\* evaluate them, and the mock of the unit tests
RedisEvalsha == "redis-evalsha"
MockShavaluator == "mockShavaluator"

\* the value other redis clients write (client.setAsync(key, 'mismatch'))
Mismatch == "mismatch"

\* PTTL of a key without expiry, and of a missing key
NoExpiry == -1
NoEntry == [val |-> "nil", ttl |-> -2]

\* Lock._defaults.delay, in ms
DefaultDelay == 50

\* no reply received / no call settled yet
NoReply == "none"
NoResult == [lock |-> "none", op |-> "none", name |-> "none", message |-> ""]

\* an error reply of the redis server
RedisError == [name |-> "Error", message |-> "ERR redis"]

VARIABLES
  store,          \* redis: key -> [val, ttl] or NoEntry
  locked,         \* lock._locked
  key,            \* lock._key
  acquiredLocks,  \* Lock._acquiredLocks
  timeout,        \* lock.timeout
  retries,        \* lock.retries
  delay,          \* lock.delay
  pc,             \* position of the call in flight on each instance
  argKey,         \* the key the call in flight works on
  argTime,        \* the time argument of the extend in flight
  rem,            \* the retries parameter of the current _attemptLock
  attempts,       \* the SETs the current acquire has sent
  timer,          \* the ms of the Promise.delay the acquire waits on, or 0
  res,            \* the reply of the store to the command in flight
  lapsed,         \* the entry the instance wrote was expired or overwritten
  result,         \* the call settled by the last step: who, which, how
  lockId,         \* lock._id
  created,        \* the instances constructed so far
  defaults,       \* Lock._defaults
  shavaluator     \* the module the instances run their scripts with

vars == <<store, locked, key, acquiredLocks, timeout, retries, delay,
          pc, argKey, argTime, rem, attempts, timer, res, lapsed, result,
          lockId, created, defaults, shavaluator>>

local == <<locked, key, acquiredLocks>>
options == <<timeout, retries, delay>>

\* what only the constructor, setDefaults and the test setup write
construction == <<lockId, created, defaults, shavaluator>>

\* this._id, assigned by the constructor
id(l) == lockId[l]

\* Lock._defaults as the module defines it
LockDefaults ==
  [timeout |-> Number(10000), retries |-> Number(0), delay |-> Number(DefaultDelay)]

(***************************************************************************)
(* Errors (lib/errors.js) and the wrapping done by each method's catch.    *)
(***************************************************************************)
LockAcquisitionError(message) ==
  [name |-> "LockAcquisitionError", message |-> message]

LockReleaseError(message) ==
  [name |-> "LockReleaseError", message |-> message]

LockExtendError(message) ==
  [name |-> "LockExtendError", message |-> message]

AcquireCatch(err) ==
  IF err.name # "LockAcquisitionError"
    THEN LockAcquisitionError(err.message)
    ELSE err

ReleaseCatch(err) ==
  IF err.name # "LockReleaseError"
    THEN LockReleaseError(err.message)
    ELSE err

\* a catch that passes the error on as it came
ExtendCatchNoWrap(err) == err

ExtendCatch(err) ==
  IF err.name # "LockExtendError"
    THEN LockExtendError(err.message)
    ELSE err

Resolved(l, op) == [lock |-> l, op |-> op, name |-> "resolved", message |-> ""]
Rejected(l, op, err) ==
  [lock |-> l, op |-> op, name |-> err.name, message |-> err.message]

\* javascript truthiness of a reply: null and 0 are falsy, 'OK' and 1 are not
Falsy(r) == r \in {"nil", "0"}

(***************************************************************************)
(* The redis commands, as functions of the store.                          *)
(***************************************************************************)
\* SET key value PX ttl, the NX left out: the key is overwritten
SetOverwrite(s, k, v, ttl) ==
  [store |-> [s EXCEPT ![k] = [val |-> v, ttl |-> ttl]], reply |-> "OK"]

\* SET key value NX, the PX ttl left out: the key never expires
SetNXNoPX(s, k, v, ttl) ==
  IF s[k] = NoEntry
    THEN [store |-> [s EXCEPT ![k] = [val |-> v, ttl |-> NoExpiry]], reply |-> "OK"]
    ELSE [store |-> s, reply |-> "nil"]

\* a SET that is refused only when the key already carries the same value
SetUnlessSame(s, k, v, ttl) ==
  IF s[k].val # v
    THEN [store |-> [s EXCEPT ![k] = [val |-> v, ttl |-> ttl]], reply |-> "OK"]
    ELSE [store |-> s, reply |-> "nil"]

\* SET key value PX ttl NX
SetNX(s, k, v, ttl) ==
  IF s[k] = NoEntry
    THEN [store |-> [s EXCEPT ![k] = [val |-> v, ttl |-> ttl]], reply |-> "OK"]
    ELSE [store |-> s, reply |-> "nil"]

\* a plain DEL key, the comparison with ARGV[1] left out
delAlways(s, k, v) ==
  IF s[k] = NoEntry
    THEN [store |-> s, reply |-> "0"]
    ELSE [store |-> [s EXCEPT ![k] = NoEntry], reply |-> "1"]

\* scripts.delifequal; GET of a missing key is false, equal to no ARGV[1]
delifequal(s, k, v) ==
  IF s[k] # NoEntry /\ s[k].val = v
    THEN [store |-> [s EXCEPT ![k] = NoEntry], reply |-> "1"]
    ELSE [store |-> s, reply |-> "0"]

\* a PEXPIRE that adds ms to the lease that is left
PExpireAdds(s, k, ms) ==
  IF s[k] = NoEntry THEN [store |-> s, reply |-> "0"]
  ELSE IF ms <= 0 THEN [store |-> [s EXCEPT ![k] = NoEntry], reply |-> "1"]
  ELSE [store |-> [s EXCEPT ![k].ttl = IF @ > 0 THEN @ + ms ELSE ms], reply |-> "1"]

\* PEXPIRE key ms: a lease that is not positive deletes the key
PExpire(s, k, ms) ==
  IF s[k] = NoEntry THEN [store |-> s, reply |-> "0"]
  ELSE IF ms <= 0 THEN [store |-> [s EXCEPT ![k] = NoEntry], reply |-> "1"]
  ELSE [store |-> [s EXCEPT ![k].ttl = ms], reply |-> "1"]

\* a plain PEXPIRE key ms, the comparison with ARGV[1] left out
pexpireAlways(s, k, v, ms) == PExpire(s, k, ms)

\* scripts.pexpireifequal
pexpireifequal(s, k, v, ms) ==
  IF s[k] # NoEntry /\ s[k].val = v
    THEN PExpire(s, k, ms)
    ELSE [store |-> s, reply |-> "0"]

(***************************************************************************)
(* Initial state: the instances just constructed, the store empty.  One    *)
(* instance was created with the shortest timeout and the other with the   *)
(* longest; each was created with any retries option.                      *)
(***************************************************************************)
Init ==
  /\ store = [k \in Keys |-> NoEntry]
  /\ locked = [l \in Locks |-> FALSE]
  /\ key = [l \in Locks |-> Null]
  /\ acquiredLocks = {}
  /\ timeout = [l \in Locks |-> IF l = "L1" THEN 1 ELSE MaxTimeout]
  /\ retries \in [Locks -> -1..MaxRetries]
  /\ delay = [l \in Locks |-> DefaultDelay]
  /\ pc = [l \in Locks |-> "idle"]
  /\ argKey = [l \in Locks |-> Null]
  /\ argTime = [l \in Locks |-> 0]
  /\ rem = [l \in Locks |-> 0]
  /\ attempts = [l \in Locks |-> 0]
  /\ timer = [l \in Locks |-> 0]
  /\ res = [l \in Locks |-> NoReply]
  /\ lapsed = [l \in Locks |-> FALSE]
  /\ result = NoResult
  /\ lockId = [l \in Locks |-> v1(l)]
  /\ created = Locks
  /\ defaults = LockDefaults
  /\ shavaluator = RedisEvalsha

(***************************************************************************)
(* Calls.  A call that is rejected by its executor settles in the step of  *)
(* the call; any other call sends one command and waits for the reply.     *)
(***************************************************************************)
\* the promise settles: the callback gets r and the call's locals are gone
Settle(l, r) ==
  /\ result' = r
  /\ pc' = [pc EXCEPT ![l] = "idle"]
  /\ argKey' = [argKey EXCEPT ![l] = Null]
  /\ argTime' = [argTime EXCEPT ![l] = 0]
  /\ rem' = [rem EXCEPT ![l] = 0]
  /\ attempts' = [attempts EXCEPT ![l] = 0]
  /\ timer' = [timer EXCEPT ![l] = 0]
  /\ res' = [res EXCEPT ![l] = NoReply]

\* a command leaves for the store
Send(l, cmd, k, time, r) ==
  /\ result' = NoResult
  /\ pc' = [pc EXCEPT ![l] = cmd]
  /\ argKey' = [argKey EXCEPT ![l] = k]
  /\ argTime' = [argTime EXCEPT ![l] = time]
  /\ rem' = [rem EXCEPT ![l] = r]
  /\ attempts' = [attempts EXCEPT ![l] = IF cmd = "set" THEN @ + 1 ELSE @]
  /\ timer' = [timer EXCEPT ![l] = 0]
  /\ res' = [res EXCEPT ![l] = NoReply]

\* the store answers the command in flight
Reply(l, r) ==
  /\ result' = NoResult
  /\ pc' = [pc EXCEPT ![l] = pc[l] \o "Reply"]
  /\ res' = [res EXCEPT ![l] = r]
  /\ UNCHANGED <<argKey, argTime, rem, attempts, timer>>

\* an instance that forgets its lock and empties the registry
ClearAll(l) ==
  /\ locked' = [locked EXCEPT ![l] = FALSE]
  /\ key' = [key EXCEPT ![l] = Null]
  /\ acquiredLocks' = {}
  /\ lapsed' = [lapsed EXCEPT ![l] = FALSE]

\* the instance forgets its lock
Clear(l) ==
  /\ locked' = [locked EXCEPT ![l] = FALSE]
  /\ key' = [key EXCEPT ![l] = Null]
  /\ acquiredLocks' = acquiredLocks \ {l}
  /\ lapsed' = [lapsed EXCEPT ![l] = FALSE]

(***************************************************************************)
(* acquire                                                                 *)
(***************************************************************************)
\* acquire that records lock._key before the attempt
AcquireEagerKey(l, k) ==
  /\ pc[l] = "idle"
  /\ IF locked[l]
       THEN /\ Settle(l, Rejected(l, "acquire",
                   AcquireCatch(LockAcquisitionError("Lock already held"))))
            /\ UNCHANGED key
       ELSE /\ Send(l, "set", k, 0, retries[l])
            /\ key' = [key EXCEPT ![l] = k]
  /\ UNCHANGED <<store, locked, acquiredLocks, options, construction, lapsed>>

\* acquire whose rejection of a locked instance does not return: the SET is
\* sent all the same (lib/lock.js:90-94)
AcquireNoReturn(l, k) ==
  /\ pc[l] = "idle"
  /\ Send(l, "set", k, 0, retries[l])
  /\ UNCHANGED <<store, local, options, construction, lapsed>>

\* acquire that takes a new token for every acquisition
AcquireNewId(l, k) ==
  /\ pc[l] = "idle"
  /\ IF locked[l]
       THEN /\ Settle(l, Rejected(l, "acquire",
                   AcquireCatch(LockAcquisitionError("Lock already held"))))
            /\ UNCHANGED lockId
       ELSE /\ Send(l, "set", k, 0, retries[l])
            /\ lockId' = [lockId EXCEPT ![l] = @ \o "+"]
  /\ UNCHANGED <<store, local, options, created, defaults, shavaluator, lapsed>>

\* lock.acquire(key): the promise executor, _attemptLock up to the SET
Acquire(l, k) ==
  /\ pc[l] = "idle"
  /\ IF locked[l]
       THEN Settle(l, Rejected(l, "acquire",
                   AcquireCatch(LockAcquisitionError("Lock already held"))))
       ELSE Send(l, "set", k, 0, retries[l])
  /\ UNCHANGED <<store, local, options, construction, lapsed>>

\* the server executes SET key id PX timeout NX
StoreSet(l) ==
  /\ pc[l] = "set"
  /\ LET r == SetNX(store, argKey[l], id(l), timeout[l]) IN
       /\ store' = r.store
       /\ Reply(l, r.reply)
  /\ UNCHANGED <<local, options, construction, lapsed>>

\* _attemptLock that throws on any refused SET, whatever retries remain
AttemptReplyNoRetry(l) ==
  /\ pc[l] = "setReply"
  /\ IF res[l] = "err"
       THEN /\ Settle(l, Rejected(l, "acquire", AcquireCatch(RedisError)))
            /\ UNCHANGED local
     ELSE IF Falsy(res[l])
       THEN /\ Settle(l, Rejected(l, "acquire", AcquireCatch(
                 LockAcquisitionError("Could not acquire lock on " \o argKey[l]))))
            /\ UNCHANGED local
     ELSE /\ locked' = [locked EXCEPT ![l] = TRUE]
          /\ key' = [key EXCEPT ![l] = argKey[l]]
          /\ acquiredLocks' = acquiredLocks \cup {l}
          /\ Settle(l, Resolved(l, "acquire"))
  /\ UNCHANGED <<store, options, construction, lapsed>>

\* _attemptLock whose retry is not returned: the promise of a refused SET
\* with retries left resolves without waiting for the next attempt
AttemptReplyNoReturn(l) ==
  /\ pc[l] = "setReply"
  /\ IF res[l] = "err"
       THEN /\ Settle(l, Rejected(l, "acquire", AcquireCatch(RedisError)))
            /\ UNCHANGED local
     ELSE IF Falsy(res[l]) /\ rem[l] = 0
       THEN /\ Settle(l, Rejected(l, "acquire", AcquireCatch(
                 LockAcquisitionError("Could not acquire lock on " \o argKey[l]))))
            /\ UNCHANGED local
     ELSE /\ locked' = [locked EXCEPT ![l] = TRUE]
          /\ key' = [key EXCEPT ![l] = argKey[l]]
          /\ acquiredLocks' = acquiredLocks \cup {l}
          /\ Settle(l, Resolved(l, "acquire"))
  /\ UNCHANGED <<store, options, construction, lapsed>>

\* _attemptLock that gives up when retries <= 0: -1 is not 'no limit'
AttemptReplyNoUnbounded(l) ==
  /\ pc[l] = "setReply"
  /\ IF res[l] = "err"
       THEN /\ Settle(l, Rejected(l, "acquire", AcquireCatch(RedisError)))
            /\ UNCHANGED local
     ELSE IF Falsy(res[l]) /\ rem[l] <= 0
       THEN /\ Settle(l, Rejected(l, "acquire", AcquireCatch(
                 LockAcquisitionError("Could not acquire lock on " \o argKey[l]))))
            /\ UNCHANGED local
     ELSE IF ~Falsy(res[l])
       THEN /\ locked' = [locked EXCEPT ![l] = TRUE]
            /\ key' = [key EXCEPT ![l] = argKey[l]]
            /\ acquiredLocks' = acquiredLocks \cup {l}
            /\ Settle(l, Resolved(l, "acquire"))
     ELSE /\ pc' = [pc EXCEPT ![l] = "delay"]
          /\ res' = [res EXCEPT ![l] = NoReply]
          /\ result' = NoResult
          /\ timer' = [timer EXCEPT ![l] = delay[l]]
          /\ UNCHANGED <<local, argKey, argTime, rem, attempts>>
  /\ UNCHANGED <<store, options, construction, lapsed>>

\* _attemptLock that takes an error of the store for a refused SET
AttemptReplyRetriesError(l) ==
  /\ pc[l] = "setReply"
  /\ IF (Falsy(res[l]) \/ res[l] = "err") /\ rem[l] = 0
       THEN /\ Settle(l, Rejected(l, "acquire", AcquireCatch(
                 LockAcquisitionError("Could not acquire lock on " \o argKey[l]))))
            /\ UNCHANGED local
     ELSE IF ~(Falsy(res[l]) \/ res[l] = "err")
       THEN /\ locked' = [locked EXCEPT ![l] = TRUE]
            /\ key' = [key EXCEPT ![l] = argKey[l]]
            /\ acquiredLocks' = acquiredLocks \cup {l}
            /\ Settle(l, Resolved(l, "acquire"))
     ELSE /\ pc' = [pc EXCEPT ![l] = "delay"]
          /\ res' = [res EXCEPT ![l] = NoReply]
          /\ result' = NoResult
          /\ timer' = [timer EXCEPT ![l] = delay[l]]
          /\ UNCHANGED <<local, argKey, argTime, rem, attempts>>
  /\ UNCHANGED <<store, options, construction, lapsed>>

\* _attemptLock that backs off: each wait is longer than the one before
AttemptReplyBackoff(l) ==
  /\ pc[l] = "setReply"
  /\ IF res[l] = "err"
       THEN /\ Settle(l, Rejected(l, "acquire", AcquireCatch(RedisError)))
            /\ UNCHANGED local
     ELSE IF Falsy(res[l]) /\ rem[l] = 0
       THEN /\ Settle(l, Rejected(l, "acquire", AcquireCatch(
                 LockAcquisitionError("Could not acquire lock on " \o argKey[l]))))
            /\ UNCHANGED local
     ELSE IF ~Falsy(res[l])
       THEN /\ locked' = [locked EXCEPT ![l] = TRUE]
            /\ key' = [key EXCEPT ![l] = argKey[l]]
            /\ acquiredLocks' = acquiredLocks \cup {l}
            /\ Settle(l, Resolved(l, "acquire"))
     ELSE /\ pc' = [pc EXCEPT ![l] = "delay"]
          /\ res' = [res EXCEPT ![l] = NoReply]
          /\ result' = NoResult
          /\ timer' = [timer EXCEPT ![l] = delay[l] * (attempts[l] + 1)]
          /\ UNCHANGED <<local, argKey, argTime, rem, attempts>>
  /\ UNCHANGED <<store, options, construction, lapsed>>

\* _attemptLock for which -1 alone means no limit: any other retries that
\* is not positive ends the acquire
AttemptReplyOnlySentinel(l) ==
  /\ pc[l] = "setReply"
  /\ IF res[l] = "err"
       THEN /\ Settle(l, Rejected(l, "acquire", AcquireCatch(RedisError)))
            /\ UNCHANGED local
     ELSE IF Falsy(res[l]) /\ rem[l] <= 0 /\ rem[l] # -1
       THEN /\ Settle(l, Rejected(l, "acquire", AcquireCatch(
                 LockAcquisitionError("Could not acquire lock on " \o argKey[l]))))
            /\ UNCHANGED local
     ELSE IF ~Falsy(res[l])
       THEN /\ locked' = [locked EXCEPT ![l] = TRUE]
            /\ key' = [key EXCEPT ![l] = argKey[l]]
            /\ acquiredLocks' = acquiredLocks \cup {l}
            /\ Settle(l, Resolved(l, "acquire"))
     ELSE /\ pc' = [pc EXCEPT ![l] = "delay"]
          /\ res' = [res EXCEPT ![l] = NoReply]
          /\ result' = NoResult
          /\ timer' = [timer EXCEPT ![l] = delay[l]]
          /\ UNCHANGED <<local, argKey, argTime, rem, attempts>>
  /\ UNCHANGED <<store, options, construction, lapsed>>

\* the .then of _attemptLock, followed by the .then/.catch of acquire
AttemptReply(l) ==
  /\ pc[l] = "setReply"
  /\ IF res[l] = "err"
       THEN /\ Settle(l, Rejected(l, "acquire", AcquireCatch(RedisError)))
            /\ UNCHANGED local
     ELSE IF Falsy(res[l]) /\ rem[l] = 0
       THEN /\ Settle(l, Rejected(l, "acquire", AcquireCatch(
                 LockAcquisitionError("Could not acquire lock on " \o argKey[l]))))
            /\ UNCHANGED local
     ELSE IF ~Falsy(res[l])
       THEN /\ locked' = [locked EXCEPT ![l] = TRUE]
            /\ key' = [key EXCEPT ![l] = argKey[l]]
            /\ acquiredLocks' = acquiredLocks \cup {l}
            /\ Settle(l, Resolved(l, "acquire"))
     ELSE /\ pc' = [pc EXCEPT ![l] = "delay"]
          /\ res' = [res EXCEPT ![l] = NoReply]
          /\ result' = NoResult
          /\ timer' = [timer EXCEPT ![l] = delay[l]]
          /\ UNCHANGED <<local, argKey, argTime, rem, attempts>>
  /\ UNCHANGED <<store, options, construction, lapsed>>

\* where the retries parameter of an acquire of l starts when it can never
\* reach 0: the re-attempts explored are counted from there
Unbounded(l) == IF retries[l] < 0 THEN retries[l] ELSE 0

\* a retry that passes its retries on as they are: _attemptLock(key, retries)
DelayElapsedKeepsRetries(l) ==
  /\ pc[l] = "delay"
  /\ Send(l, "set", argKey[l], 0, rem[l])
  /\ UNCHANGED <<store, local, options, construction, lapsed>>

\* Promise.delay(lock.delay) elapses: _attemptLock(key, retries - 1)
DelayElapsed(l) ==
  /\ pc[l] = "delay"
  /\ rem[l] - 1 >= Unbounded(l) - MaxUnbounded
  /\ Send(l, "set", argKey[l], 0, rem[l] - 1)
  /\ UNCHANGED <<store, local, options, construction, lapsed>>

(***************************************************************************)
(* release                                                                 *)
(***************************************************************************)
\* release whose rejection of an unlocked instance does not return: the
\* script is sent all the same (lib/lock.js:122-126)
ReleaseNoReturn(l) ==
  /\ pc[l] = "idle"
  /\ Send(l, "del", key[l], 0, 0)
  /\ UNCHANGED <<store, local, options, construction, lapsed>>

\* lock.release(): the promise executor
Release(l) ==
  /\ pc[l] = "idle"
  /\ IF ~locked[l]
       THEN Settle(l, Rejected(l, "release",
                   ReleaseCatch(LockReleaseError("Lock has not been acquired"))))
       ELSE Send(l, "del", key[l], 0, 0)
  /\ UNCHANGED <<store, local, options, construction, lapsed>>

\* the server executes the delifequal script
StoreDelIfEqual(l) ==
  /\ shavaluator = RedisEvalsha
  /\ pc[l] = "del"
  /\ LET r == delifequal(store, argKey[l], id(l)) IN
       /\ store' = r.store
       /\ Reply(l, r.reply)
  /\ UNCHANGED <<local, options, construction, lapsed>>

\* release that keeps lock._key after the delete
ReleaseReplyKeepsKey(l) ==
  /\ pc[l] = "delReply"
  /\ IF res[l] = "err"
       THEN /\ Settle(l, Rejected(l, "release", ReleaseCatch(RedisError)))
            /\ UNCHANGED <<local, lapsed>>
       ELSE /\ locked' = [locked EXCEPT ![l] = FALSE]
            /\ acquiredLocks' = acquiredLocks \ {l}
            /\ lapsed' = [lapsed EXCEPT ![l] = FALSE]
            /\ UNCHANGED key
            /\ Settle(l, IF Falsy(res[l])
                 THEN Rejected(l, "release", ReleaseCatch(
                        LockReleaseError("Lock on " \o argKey[l] \o " had expired")))
                 ELSE Resolved(l, "release"))
  /\ UNCHANGED <<store, options, construction>>

\* release that throws on a reply of 0 before it clears the instance
ReleaseReplyThrowsFirst(l) ==
  /\ pc[l] = "delReply"
  /\ IF res[l] = "err"
       THEN /\ Settle(l, Rejected(l, "release", ReleaseCatch(RedisError)))
            /\ UNCHANGED <<local, lapsed>>
     ELSE IF Falsy(res[l])
       THEN /\ Settle(l, Rejected(l, "release", ReleaseCatch(
                   LockReleaseError("Lock on " \o argKey[l] \o " had expired"))))
            /\ UNCHANGED <<local, lapsed>>
     ELSE /\ Clear(l)
          /\ Settle(l, Resolved(l, "release"))
  /\ UNCHANGED <<store, options, construction>>

\* the .then/.catch of release
ReleaseReply(l) ==
  /\ pc[l] = "delReply"
  /\ IF res[l] = "err"
       THEN /\ Settle(l, Rejected(l, "release", ReleaseCatch(RedisError)))
            /\ UNCHANGED <<local, lapsed>>
       ELSE /\ Clear(l)
            /\ Settle(l, IF Falsy(res[l])
                 THEN Rejected(l, "release", ReleaseCatch(
                        LockReleaseError("Lock on " \o argKey[l] \o " had expired")))
                 ELSE Resolved(l, "release"))
  /\ UNCHANGED <<store, options, construction>>

(***************************************************************************)
(* extend                                                                  *)
(***************************************************************************)
\* lock.extend(time): the promise executor
Extend(l, time) ==
  /\ pc[l] = "idle"
  /\ IF Not(time) \/ StrictNotEqual(time, parseInt(time))
       THEN Settle(l, Rejected(l, "extend", ExtendCatch(
                   LockExtendError("Int time is required to extend lock"))))
     ELSE IF ~locked[l]
       THEN Settle(l, Rejected(l, "extend", ExtendCatch(
                   LockExtendError("Lock has not been acquired"))))
     ELSE Send(l, "pexpire", key[l], time.v, 0)
  /\ UNCHANGED <<store, local, options, construction, lapsed>>

\* the server executes the pexpireifequal script
StorePExpireIfEqual(l) ==
  /\ shavaluator = RedisEvalsha
  /\ pc[l] = "pexpire"
  /\ LET r == pexpireifequal(store, argKey[l], id(l), argTime[l]) IN
       /\ store' = r.store
       /\ Reply(l, r.reply)
       /\ lapsed' = [lapsed EXCEPT ![l] = @ \/ r.store[argKey[l]] = NoEntry]
  /\ UNCHANGED <<local, options, construction>>

\* the .then of extend that, on a mismatch, unlocks but keeps lock._key
ExtendReplyKeepsKey(l) ==
  /\ pc[l] = "pexpireReply"
  /\ IF res[l] = "err"
       THEN /\ Settle(l, Rejected(l, "extend", ExtendCatch(RedisError)))
            /\ UNCHANGED <<local, lapsed>>
     ELSE IF ~Falsy(res[l])
       THEN /\ Settle(l, Resolved(l, "extend"))
            /\ UNCHANGED <<local, lapsed>>
     ELSE /\ locked' = [locked EXCEPT ![l] = FALSE]
          /\ acquiredLocks' = acquiredLocks \ {l}
          /\ lapsed' = [lapsed EXCEPT ![l] = FALSE]
          /\ UNCHANGED key
          /\ Settle(l, Rejected(l, "extend", ExtendCatch(
                LockExtendError("Lock on " \o argKey[l] \o " had expired"))))
  /\ UNCHANGED <<store, options, construction>>

\* the .then of extend that, on a mismatch, unlocks but leaves the
\* instance in the registry
ExtendReplyStaysRegistered(l) ==
  /\ pc[l] = "pexpireReply"
  /\ IF res[l] = "err"
       THEN /\ Settle(l, Rejected(l, "extend", ExtendCatch(RedisError)))
            /\ UNCHANGED <<local, lapsed>>
     ELSE IF ~Falsy(res[l])
       THEN /\ Settle(l, Resolved(l, "extend"))
            /\ UNCHANGED <<local, lapsed>>
     ELSE /\ locked' = [locked EXCEPT ![l] = FALSE]
          /\ key' = [key EXCEPT ![l] = Null]
          /\ lapsed' = [lapsed EXCEPT ![l] = FALSE]
          /\ UNCHANGED acquiredLocks
          /\ Settle(l, Rejected(l, "extend", ExtendCatch(
                LockExtendError("Lock on " \o argKey[l] \o " had expired"))))
  /\ UNCHANGED <<store, options, construction>>

\* the .then/.catch of extend
ExtendReply(l) ==
  /\ pc[l] = "pexpireReply"
  /\ IF res[l] = "err"
       THEN /\ Settle(l, Rejected(l, "extend", ExtendCatch(RedisError)))
            /\ UNCHANGED <<local, lapsed>>
     ELSE IF ~Falsy(res[l])
       THEN /\ Settle(l, Resolved(l, "extend"))
            /\ UNCHANGED <<local, lapsed>>
     ELSE /\ Clear(l)
          /\ Settle(l, Rejected(l, "extend", ExtendCatch(
                LockExtendError("Lock on " \o argKey[l] \o " had expired"))))
  /\ UNCHANGED <<store, options, construction>>

(***************************************************************************)
(* The store: errors, the clock, and other clients.                        *)
(***************************************************************************)
\* the server answers the command in flight with an error reply; the mock
\* passes no error of its commands on
StoreError(l) ==
  /\ pc[l] \in {"set"} \cup (IF shavaluator = RedisEvalsha THEN {"del", "pexpire"} ELSE {})
  /\ Reply(l, "err")
  /\ UNCHANGED <<store, local, options, construction, lapsed>>

\* the instances whose entry at k goes away when k is removed or rewritten
Loses(l, k) == store[k].val = id(l)

\* a clock that runs a lease down to its last unit and never removes the key
TickNeverRemoves ==
  /\ \E k \in Keys : store[k].ttl > 1
  /\ store' = [k \in Keys |->
                 IF store[k].ttl > 1 THEN [store[k] EXCEPT !.ttl = @ - 1]
                 ELSE store[k]]
  /\ result' = NoResult
  /\ UNCHANGED <<local, options, construction, pc, argKey, argTime, rem, attempts, timer, res, lapsed>>

\* a clock whose expiry of a key reaches the instances: the one that wrote
\* the entry is unlocked on the spot
TickClearsHolder ==
  /\ \E k \in Keys : store[k].ttl > 0
  /\ store' = [k \in Keys |->
                 IF store[k].ttl > 1 THEN [store[k] EXCEPT !.ttl = @ - 1]
                 ELSE IF store[k].ttl = 1 THEN NoEntry
                 ELSE store[k]]
  /\ LET gone == {l \in Locks : \E k \in Keys : store[k].ttl = 1 /\ Loses(l, k)} IN
       /\ locked' = [l \in Locks |-> locked[l] /\ l \notin gone]
       /\ key' = [l \in Locks |-> IF l \in gone THEN Null ELSE key[l]]
       /\ acquiredLocks' = acquiredLocks \ gone
       /\ lapsed' = [l \in Locks |-> lapsed[l] /\ l \notin gone]
  /\ result' = NoResult
  /\ UNCHANGED <<options, construction, pc, argKey, argTime, rem, attempts, timer, res>>

\* one unit of the store's clock
Tick ==
  /\ \E k \in Keys : store[k].ttl > 0
  /\ store' = [k \in Keys |->
                 IF store[k].ttl > 1 THEN [store[k] EXCEPT !.ttl = @ - 1]
                 ELSE IF store[k].ttl = 1 THEN NoEntry
                 ELSE store[k]]
  /\ lapsed' = [l \in Locks |->
                 lapsed[l] \/ \E k \in Keys : store[k].ttl = 1 /\ Loses(l, k)]
  /\ result' = NoResult
  /\ UNCHANGED <<local, options, construction, pc, argKey, argTime, rem, attempts, timer, res>>

\* another redis client: SET key 'mismatch'
ForeignSet(k) ==
  /\ store[k] # [val |-> Mismatch, ttl |-> NoExpiry]
  /\ store' = [store EXCEPT ![k] = [val |-> Mismatch, ttl |-> NoExpiry]]
  /\ lapsed' = [l \in Locks |-> lapsed[l] \/ Loses(l, k)]
  /\ result' = NoResult
  /\ UNCHANGED <<local, options, construction, pc, argKey, argTime, rem, attempts, timer, res>>

\* another redis client: DEL key
ForeignDel(k) ==
  /\ store[k] # NoEntry
  /\ store' = [store EXCEPT ![k] = NoEntry]
  /\ lapsed' = [l \in Locks |-> lapsed[l] \/ Loses(l, k)]
  /\ result' = NoResult
  /\ UNCHANGED <<local, options, construction, pc, argKey, argTime, rem, attempts, timer, res>>

\* the time arguments callers pass to extend
TimeArgs ==
  {Number(n) : n \in -1..MaxTime} \cup {Fraction(1), String(1), Undefined}

Next ==
  \/ \E l \in Locks, k \in Keys : Acquire(l, k)
  \/ \E l \in Locks : StoreSet(l)
  \/ \E l \in Locks : AttemptReply(l)
  \/ \E l \in Locks : DelayElapsed(l)
  \/ \E l \in Locks : Release(l)
  \/ \E l \in Locks : StoreDelIfEqual(l)
  \/ \E l \in Locks : ReleaseReply(l)
  \/ \E l \in Locks, time \in TimeArgs : Extend(l, time)
  \/ \E l \in Locks : StorePExpireIfEqual(l)
  \/ \E l \in Locks : ExtendReply(l)
  \/ \E l \in Locks : StoreError(l)
  \/ Tick
  \/ \E k \in Keys : ForeignSet(k)
  \/ \E k \in Keys : ForeignDel(k)

Spec == Init /\ [][Next]_vars

\* The scheduling the calls rely on: redis answers a SET it received, the
\* callbacks of a settled promise run, the timer of Promise.delay fires,
\* and the store's clock advances.
Fairness ==
  /\ \A l \in Locks : WF_vars(StoreSet(l))
  /\ \A l \in Locks : WF_vars(AttemptReply(l))
  /\ \A l \in Locks : WF_vars(DelayElapsed(l))
  /\ WF_vars(Tick)

\* the second instance was created with retries -1, the first with any
FairInit == Init /\ retries["L2"] = -1

FairSpec == FairInit /\ [][Next]_vars /\ Fairness

(***************************************************************************)
(* The module's functions: createLock and setDefaults.  Here an instance's *)
(* timeout, retries and delay hold the javascript values the constructor   *)
(* stored, which need not be numbers.                                      *)
(***************************************************************************)
\* the keys of Lock._defaults
DefaultKeys == {"timeout", "retries", "delay"}

\* the keys of the option objects passed in: the recognised ones, and one
\* that is not
OptionKeys == DefaultKeys \cup {"invalid"}

\* an option object with the given values, every other key absent
Options(o) == [k \in OptionKeys |-> IF k \in DOMAIN o THEN o[k] ELSE Absent]

\* the option objects passed to setDefaults and createLock
OptionObjects ==
  { Options(<<>>),
    Options([timeout |-> Number(999), retries |-> Number(888)]),
    Options([timeout |-> Number(999), retries |-> Number(888), delay |-> Number(777)]),
    Options([invalid |-> Number(23123)]),
    Options([retries |-> JsNull, delay |-> Fraction(2)]),
    Options([timeout |-> Text, delay |-> Undefined]) }

\* options[key]
Get(opts, k) == IF opts[k] = Absent THEN Undefined ELSE opts[k]

\* key in options
In(k, opts) == opts[k] # Absent

\* the defaults after redislock.setDefaults(options)
setDefaults(opts) ==
  [k \in DefaultKeys |->
     IF Get(opts, k) # JsNull /\ Get(opts, k) # Undefined
       THEN parseInt(Get(opts, k))
       ELSE defaults[k]]

\* redislock.setDefaults(options)
SetDefaults(opts) ==
  /\ defaults' = setDefaults(opts)
  /\ UNCHANGED <<store, local, options, lockId, created, shavaluator,
                 pc, argKey, argTime, rem, attempts, timer, res, lapsed, result>>

\* a constructor that parses the options as setDefaults does
settingParsed(opts, k) ==
  IF In(k, opts) THEN parseInt(opts[k]) ELSE defaults[k]

\* this[key] after the constructor
setting(opts, k) ==
  IF In(k, opts) THEN opts[k] ELSE defaults[k]

\* a constructor that starts the registry afresh
CreateLockClearsRegistry(l, opts) ==
  /\ l \notin created
  /\ created' = created \cup {l}
  /\ lockId' = [lockId EXCEPT ![l] = v1(l)]
  /\ locked' = [locked EXCEPT ![l] = FALSE]
  /\ key' = [key EXCEPT ![l] = Null]
  /\ timeout' = [timeout EXCEPT ![l] = setting(opts, "timeout")]
  /\ retries' = [retries EXCEPT ![l] = setting(opts, "retries")]
  /\ delay' = [delay EXCEPT ![l] = setting(opts, "delay")]
  /\ acquiredLocks' = {}
  /\ UNCHANGED <<store, defaults, shavaluator,
                 pc, argKey, argTime, rem, attempts, timer, res, lapsed, result>>

\* redislock.createLock(client, options)
CreateLock(l, opts) ==
  /\ l \notin created
  /\ created' = created \cup {l}
  /\ lockId' = [lockId EXCEPT ![l] = v1(l)]
  /\ locked' = [locked EXCEPT ![l] = FALSE]
  /\ key' = [key EXCEPT ![l] = Null]
  /\ timeout' = [timeout EXCEPT ![l] = setting(opts, "timeout")]
  /\ retries' = [retries EXCEPT ![l] = setting(opts, "retries")]
  /\ delay' = [delay EXCEPT ![l] = setting(opts, "delay")]
  /\ UNCHANGED <<store, acquiredLocks, defaults, shavaluator,
                 pc, argKey, argTime, rem, attempts, timer, res, lapsed, result>>

\* the module just loaded: no instance yet
ModuleInit ==
  /\ store = [k \in Keys |-> NoEntry]
  /\ locked = [l \in Locks |-> FALSE]
  /\ key = [l \in Locks |-> Null]
  /\ acquiredLocks = {}
  /\ timeout = [l \in Locks |-> Undefined]
  /\ retries = [l \in Locks |-> Undefined]
  /\ delay = [l \in Locks |-> Undefined]
  /\ pc = [l \in Locks |-> "idle"]
  /\ argKey = [l \in Locks |-> Null]
  /\ argTime = [l \in Locks |-> 0]
  /\ rem = [l \in Locks |-> 0]
  /\ attempts = [l \in Locks |-> 0]
  /\ timer = [l \in Locks |-> 0]
  /\ res = [l \in Locks |-> NoReply]
  /\ lapsed = [l \in Locks |-> FALSE]
  /\ result = NoResult
  /\ lockId = [l \in Locks |-> Null]
  /\ created = {}
  /\ defaults = LockDefaults
  /\ shavaluator = RedisEvalsha

ModuleNext ==
  \/ \E o \in OptionObjects : SetDefaults(o)
  \/ \E l \in Locks, o \in OptionObjects : CreateLock(l, o)

ModuleSpec == ModuleInit /\ [][ModuleNext]_vars

(***************************************************************************)
(* The instances with either module for the scripts.  The mock runs a      *)
(* script as two commands of the client: GET, and then DEL or PEXPIRE if   *)
(* the value read equals the id.  It hands no error to its callback.       *)
(***************************************************************************)
\* mock exec: the store executes the GET, and the callback compares
MockGet(l) ==
  /\ shavaluator = MockShavaluator
  /\ pc[l] \in {"del", "pexpire"}
  /\ IF store[argKey[l]].val # id(l)
       THEN Reply(l, "0")
       ELSE /\ pc' = [pc EXCEPT ![l] = pc[l] \o "Got"]
            /\ result' = NoResult
            /\ UNCHANGED <<res, argKey, argTime, rem, attempts, timer>>
  /\ UNCHANGED <<store, local, options, construction, lapsed>>

\* the answer of the mock to the command that follows the GET
MockReply(l, cmd) ==
  /\ result' = NoResult
  /\ pc' = [pc EXCEPT ![l] = cmd \o "Reply"]
  /\ res' = [res EXCEPT ![l] = "1"]
  /\ UNCHANGED <<argKey, argTime, rem, attempts, timer>>

\* mock exec: the store executes the DEL
MockDel(l) ==
  /\ pc[l] = "delGot"
  /\ store' = [store EXCEPT ![argKey[l]] = NoEntry]
  /\ lapsed' = [x \in Locks |-> lapsed[x] \/ (x # l /\ Loses(x, argKey[l]))]
  /\ MockReply(l, "del")
  /\ UNCHANGED <<local, options, construction>>

\* mock exec: the store executes the PEXPIRE
MockPExpire(l) ==
  /\ pc[l] = "pexpireGot"
  /\ LET r == PExpire(store, argKey[l], argTime[l]) IN
       /\ store' = r.store
       /\ lapsed' = [x \in Locks |->
                       lapsed[x] \/ (Loses(x, argKey[l]) /\ r.store[argKey[l]] = NoEntry)]
  /\ MockReply(l, "pexpire")
  /\ UNCHANGED <<local, options, construction>>

\* the tests replace redis-evalsha by the mock before any instance exists;
\* the first instance was created with retries 0 and the second with 1
MockInit ==
  /\ store = [k \in Keys |-> NoEntry]
  /\ locked = [l \in Locks |-> FALSE]
  /\ key = [l \in Locks |-> Null]
  /\ acquiredLocks = {}
  /\ timeout = [l \in Locks |-> IF l = "L1" THEN 1 ELSE MaxTimeout]
  /\ retries = [l \in Locks |-> IF l = "L1" THEN 0 ELSE 1]
  /\ delay = [l \in Locks |-> DefaultDelay]
  /\ pc = [l \in Locks |-> "idle"]
  /\ argKey = [l \in Locks |-> Null]
  /\ argTime = [l \in Locks |-> 0]
  /\ rem = [l \in Locks |-> 0]
  /\ attempts = [l \in Locks |-> 0]
  /\ timer = [l \in Locks |-> 0]
  /\ res = [l \in Locks |-> NoReply]
  /\ lapsed = [l \in Locks |-> FALSE]
  /\ result = NoResult
  /\ lockId = [l \in Locks |-> v1(l)]
  /\ created = Locks
  /\ defaults = LockDefaults
  /\ shavaluator \in {RedisEvalsha, MockShavaluator}

MockNext ==
  \/ Next
  \/ \E l \in Locks : MockGet(l)
  \/ \E l \in Locks : MockDel(l)
  \/ \E l \in Locks : MockPExpire(l)

MockSpec == MockInit /\ [][MockNext]_vars

(***************************************************************************)
(* The instances created with negative retries.                            *)
(***************************************************************************)
\* the negative retries options the instances are created with
NegativeRetries == {-2, -1}

NegativeInit ==
  /\ store = [k \in Keys |-> NoEntry]
  /\ locked = [l \in Locks |-> FALSE]
  /\ key = [l \in Locks |-> Null]
  /\ acquiredLocks = {}
  /\ timeout = [l \in Locks |-> IF l = "L1" THEN 1 ELSE MaxTimeout]
  /\ retries \in [Locks -> NegativeRetries]
  /\ delay = [l \in Locks |-> DefaultDelay]
  /\ pc = [l \in Locks |-> "idle"]
  /\ argKey = [l \in Locks |-> Null]
  /\ argTime = [l \in Locks |-> 0]
  /\ rem = [l \in Locks |-> 0]
  /\ attempts = [l \in Locks |-> 0]
  /\ timer = [l \in Locks |-> 0]
  /\ res = [l \in Locks |-> NoReply]
  /\ lapsed = [l \in Locks |-> FALSE]
  /\ result = NoResult
  /\ lockId = [l \in Locks |-> v1(l)]
  /\ created = Locks
  /\ defaults = LockDefaults
  /\ shavaluator = RedisEvalsha

NegativeSpec == NegativeInit /\ [][Next]_vars

(***************************************************************************)
(* The instances with a store that is left alone: the clock does not run   *)
(* a lease out, no other client writes, and redis answers every command.   *)
(***************************************************************************)
QuietNext ==
  \/ \E l \in Locks, k \in Keys : Acquire(l, k)
  \/ \E l \in Locks : StoreSet(l)
  \/ \E l \in Locks : AttemptReply(l)
  \/ \E l \in Locks : DelayElapsed(l)
  \/ \E l \in Locks : Release(l)
  \/ \E l \in Locks : StoreDelIfEqual(l)
  \/ \E l \in Locks : ReleaseReply(l)
  \/ \E l \in Locks, time \in TimeArgs : Extend(l, time)
  \/ \E l \in Locks : StorePExpireIfEqual(l)
  \/ \E l \in Locks : ExtendReply(l)

QuietSpec == Init /\ [][QuietNext]_vars

(***************************************************************************)
(* The module's functions next to an instance in use.  The first instance  *)
(* exists and makes its calls; the second is created, and the defaults are *)
(* set, at any moment in between.                                          *)
(***************************************************************************)
\* the instance that makes calls
Caller == "L1"

RegistryInit ==
  /\ store = [k \in Keys |-> NoEntry]
  /\ locked = [l \in Locks |-> FALSE]
  /\ key = [l \in Locks |-> Null]
  /\ acquiredLocks = {}
  /\ timeout = [l \in Locks |-> IF l = Caller THEN 1 ELSE Undefined]
  /\ \E r \in 0..MaxRetries :
       retries = [l \in Locks |-> IF l = Caller THEN r ELSE Undefined]
  /\ delay = [l \in Locks |-> IF l = Caller THEN DefaultDelay ELSE Undefined]
  /\ pc = [l \in Locks |-> "idle"]
  /\ argKey = [l \in Locks |-> Null]
  /\ argTime = [l \in Locks |-> 0]
  /\ rem = [l \in Locks |-> 0]
  /\ attempts = [l \in Locks |-> 0]
  /\ timer = [l \in Locks |-> 0]
  /\ res = [l \in Locks |-> NoReply]
  /\ lapsed = [l \in Locks |-> FALSE]
  /\ result = NoResult
  /\ lockId = [l \in Locks |-> IF l = Caller THEN v1(l) ELSE Null]
  /\ created = {Caller}
  /\ defaults = LockDefaults
  /\ shavaluator = RedisEvalsha

RegistryNext ==
  \/ \E o \in OptionObjects : SetDefaults(o)
  \/ \E l \in Locks, o \in OptionObjects : CreateLock(l, o)
  \/ \E k \in Keys : Acquire(Caller, k)
  \/ StoreSet(Caller)
  \/ AttemptReply(Caller)
  \/ DelayElapsed(Caller)
  \/ Release(Caller)
  \/ StoreDelIfEqual(Caller)
  \/ ReleaseReply(Caller)
  \/ \E time \in TimeArgs : Extend(Caller, time)
  \/ StorePExpireIfEqual(Caller)
  \/ ExtendReply(Caller)
  \/ StoreError(Caller)
  \/ Tick
  \/ \E k \in Keys : ForeignSet(k)
  \/ \E k \in Keys : ForeignDel(k)

RegistrySpec == RegistryInit /\ [][RegistryNext]_vars

(***************************************************************************)
(* The scripts on their own.  A client evaluates the two scripts, in any   *)
(* order and any number of times, with one KEYS[1], ARGV[1] and ARGV[2],   *)
(* on a store that starts in any state.                                    *)
(***************************************************************************)
\* the values the keys of the store carry
Values == {v1(l) : l \in Locks} \cup {Mismatch}

\* what the store may hold for one key
Entries ==
  {NoEntry} \cup [val : Values, ttl : {NoExpiry} \cup 1..MaxTimeout]

\* ARGV[1]: any string, the one that reads like lua's nil included
Argv1 == Values \cup {"nil"}

\* ARGV[2]: the integers PEXPIRE takes
Argv2 == -1..MaxTime

\* the client that evaluates the scripts
Evaluator == "L1"

ScriptInit ==
  /\ store \in [Keys -> Entries]
  /\ locked = [l \in Locks |-> FALSE]
  /\ key = [l \in Locks |-> Null]
  /\ acquiredLocks = {}
  /\ timeout = [l \in Locks |-> IF l = "L1" THEN 1 ELSE MaxTimeout]
  /\ retries = [l \in Locks |-> 0]
  /\ delay = [l \in Locks |-> DefaultDelay]
  /\ pc = [l \in Locks |-> IF l = Evaluator THEN "evalsha" ELSE "idle"]
  /\ \E k \in Keys :
       argKey = [l \in Locks |-> IF l = Evaluator THEN k ELSE Null]
  /\ \E ms \in Argv2 :
       argTime = [l \in Locks |-> IF l = Evaluator THEN ms ELSE 0]
  /\ rem = [l \in Locks |-> 0]
  /\ attempts = [l \in Locks |-> 0]
  /\ timer = [l \in Locks |-> 0]
  /\ res = [l \in Locks |-> NoReply]
  /\ lapsed = [l \in Locks |-> FALSE]
  /\ result = NoResult
  /\ \E v \in Argv1 :
       lockId = [l \in Locks |-> IF l = Evaluator THEN v ELSE v1(l)]
  /\ created = Locks
  /\ defaults = LockDefaults
  /\ shavaluator = RedisEvalsha

\* the position of a client whose last evaluation was that of script: the
\* script ran once, or it ran again right after itself
Ran(l, script) ==
  IF pc[l] \in {script \o "Ran", script \o "Again"}
    THEN script \o "Again"
    ELSE script \o "Ran"

\* the positions in which the client evaluates a script
Evaluating ==
  {"evalsha"} \cup {n \o x : n \in {"delifequal", "pexpireifequal"},
                             x \in {"Ran", "Again"}}

\* EVALSHA: r is the script applied to the store
Evalsha(l, script, r) ==
  /\ store' = r.store
  /\ res' = [res EXCEPT ![l] = r.reply]
  /\ pc' = [pc EXCEPT ![l] = Ran(l, script)]
  /\ UNCHANGED <<local, options, construction, argKey, argTime, rem,
                 attempts, timer, lapsed, result>>

\* the server runs delifequal for the client
EvalDelIfEqual(l) ==
  /\ pc[l] \in Evaluating
  /\ Evalsha(l, "delifequal", delifequal(store, argKey[l], id(l)))

\* the server runs pexpireifequal for the client
EvalPExpireIfEqual(l) ==
  /\ pc[l] \in Evaluating
  /\ Evalsha(l, "pexpireifequal",
             pexpireifequal(store, argKey[l], id(l), argTime[l]))

ScriptNext ==
  \/ \E l \in Locks : EvalDelIfEqual(l)
  \/ \E l \in Locks : EvalPExpireIfEqual(l)

ScriptSpec == ScriptInit /\ [][ScriptNext]_vars

(***************************************************************************)
(* Properties.  A call is three steps, so what a call does to the store is *)
(* stated of the step in which the server executes its command, and what   *)
(* it does to the instance of the step in which its promise settles.       *)
(***************************************************************************)
\* the server executes (not: refuses with an error) the command of l
Executes(l, cmd) ==
  pc[l] = cmd /\ pc'[l] = cmd \o "Reply" /\ res'[l] # "err"

\* the promise of l's call settles on the reply to cmd
Settles(l, cmd) == pc[l] = cmd \o "Reply" /\ pc'[l] = "idle"

\* l is not locked, has no key and is not registered
Unlocked(l) == ~locked[l] /\ key[l] = Null /\ l \notin acquiredLocks

\* l acquired k, and since then k was neither released by l nor expired
\* or rewritten in the store
Holding(l, k) ==
  /\ locked[l] /\ key[l] = k /\ ~lapsed[l]
  /\ ~(pc[l] = "delReply" /\ res[l] = "1")

CouldNotAcquire(l, k) ==
  Rejected(l, "acquire", LockAcquisitionError("Could not acquire lock on " \o k))

HadExpired(l, op, k) ==
  Rejected(l, op, [name |-> IF op = "release" THEN "LockReleaseError"
                                               ELSE "LockExtendError",
                   message |-> "Lock on " \o k \o " had expired"])

\* C1: while instance a holds k (acquired, not released, not expired), every
\* SET that the server executes for another instance b's acquire(k) is
\* denied and leaves the store as it is; with retries = 0 the denied b
\* fails with LockAcquisitionError and stays unlocked with a null key.
C1_MutualExclusion ==
  [][\A a \in Locks : \A b \in Locks \ {a} :
       /\ (Executes(b, "set") /\ Holding(a, argKey[b]))
            => /\ res'[b] = "nil"
               /\ store' = store
               /\ store[argKey[b]].val = id(a)
       /\ (Settles(b, "set") /\ res[b] = "nil" /\ retries[b] = 0)
            => /\ result' = CouldNotAcquire(b, argKey[b])
               /\ Unlocked(b)'
     ]_vars

\* C1 witness: L2, created with retries 0, was just refused k1, which L1
\* holds
C1_Witness ==
  /\ result = CouldNotAcquire("L2", "k1")
  /\ retries["L2"] = 0
  /\ Holding("L1", "k1")
  /\ store["k1"].val = id("L1")

\* C2: in every interleaving, the only change release() of instance a makes
\* to the store is to remove its key, and only in the step where the
\* script finds the key's value equal to a's id; when the key is absent or
\* holds another value (another instance's id after a's lease expired, or
\* a foreign value) the store is left as it is.
C2_OwnershipVerifiedRelease ==
  [][\A a \in Locks :
       /\ Executes(a, "del") =>
            IF store[argKey[a]].val = id(a)
              THEN store' = [store EXCEPT ![argKey[a]] = NoEntry]
              ELSE store' = store /\ res'[a] = "0"
       /\ (pc[a] = "idle" /\ pc'[a] = "del") => store' = store
       /\ Settles(a, "del") => store' = store
     ]_vars

\* C2 witness: L1's lease expired, L2 acquired the same key, the script of
\* L1's release found L2's id and left the entry to L2
C2_Witness ==
  /\ pc["L1"] = "delReply" /\ res["L1"] = "0" /\ lapsed["L1"]
  /\ store[argKey["L1"]].val = id("L2")
  /\ Holding("L2", argKey["L1"])

\* C3: acquire(k) followed by release() on the same instance, with no expiry
\* and no foreign write in between: the script removes k from the store,
\* and release resolves with the instance unlocked, its key null, the
\* instance out of the registry and no store key holding its id.
C3_RoundTrip ==
  [][\A l \in Locks :
       /\ (Executes(l, "del") /\ ~lapsed[l])
            => /\ res'[l] = "1"
               /\ store'[argKey[l]] = NoEntry
       /\ (Settles(l, "del") /\ res[l] = "1")
            => /\ result' = Resolved(l, "release")
               /\ Unlocked(l)'
               /\ \A k \in Keys : store'[k].val # id(l)
     ]_vars

\* C3 witness: L2 released what it had acquired, and the store is empty
C3_Witness ==
  /\ result = Resolved("L2", "release")
  /\ Unlocked("L2")
  /\ \A k \in Keys : store[k] = NoEntry

AlreadyHeld(l) ==
  Rejected(l, "acquire", LockAcquisitionError("Lock already held"))

NotAcquired(l, op) ==
  Rejected(l, op, [name |-> IF op = "release" THEN "LockReleaseError"
                                               ELSE "LockExtendError",
                   message |-> "Lock has not been acquired"])

\* C4: a successful acquire(k) on an unlocked instance: the SET that the
\* server accepts writes k -> id with a lease equal to the instance's
\* timeout on a free key, and when the call resolves the instance is
\* locked, its key is k and it is in the registry; unless the entry lapsed
\* in between, k still carries the id with a lease of at most the timeout.
C4_AcquirePostcondition ==
  [][\A l \in Locks :
       /\ (Executes(l, "set") /\ res'[l] = "OK")
            => /\ store[argKey[l]] = NoEntry
               /\ store' = [store EXCEPT ![argKey[l]] =
                              [val |-> id(l), ttl |-> timeout[l]]]
       /\ (Settles(l, "set") /\ res[l] = "OK")
            => /\ Unlocked(l)
               /\ result' = Resolved(l, "acquire")
               /\ locked'[l] /\ key'[l] = argKey[l] /\ l \in acquiredLocks'
               /\ ~lapsed[l] => /\ store'[argKey[l]].val = id(l)
                                /\ store'[argKey[l]].ttl \in 1..timeout[l]
       /\ (Settles(l, "set") /\ result' = Resolved(l, "acquire"))
            => res[l] = "OK"
     ]_vars

\* C4 witness: L2's acquire of k2 just resolved, the full lease still there
C4_Witness ==
  /\ result = Resolved("L2", "acquire")
  /\ locked["L2"] /\ key["L2"] = "k2" /\ "L2" \in acquiredLocks
  /\ store["k2"] = [val |-> id("L2"), ttl |-> timeout["L2"]]

\* C5: a failed acquire(k) leaves no partial state: while the call is in
\* flight and when it rejects (retries exhausted, or an error reply of the
\* store) the instance is unlocked with a null key and out of the registry,
\* the rejection is a LockAcquisitionError, and a SET that is not accepted
\* leaves the store (the holder's value and remaining lease) as it is.
C5_FailedAcquireNoPartialState ==
  [][\A l \in Locks :
       /\ pc[l] \in {"set", "setReply", "delay"} => Unlocked(l)
       /\ (pc[l] = "set" /\ pc'[l] = "setReply" /\ res'[l] # "OK")
            => store' = store
       /\ (Settles(l, "set") /\ result' # Resolved(l, "acquire"))
            => /\ res[l] = "err" \/ (res[l] = "nil" /\ rem[l] = 0)
               /\ result'.lock = l /\ result'.op = "acquire"
               /\ result'.name = "LockAcquisitionError"
               /\ Unlocked(l)'
               /\ store' = store
     ]_vars

\* C5 witness: L1, created with retries 1, was refused k1 twice while L2
\* holds it; L2's entry still has its value and the lease that was left
C5_Witness ==
  /\ result = CouldNotAcquire("L1", "k1")
  /\ retries["L1"] = 1
  /\ Unlocked("L1")
  /\ Holding("L2", "k1")
  /\ store["k1"] = [val |-> id("L2"), ttl |-> 1]

\* C6: acquire on an instance that is locked rejects in the call itself with
\* LockAcquisitionError 'Lock already held', whatever the key: no SET is
\* sent, and the instance's state, key and registry entry and the store are
\* unchanged.
C6_AcquireWhenLocked ==
  [][\A l \in Locks :
       (pc[l] = "idle" /\ locked[l])
         => /\ pc'[l] # "set"
            /\ (result' # result /\ result'.lock = l /\ result'.op = "acquire")
                 => /\ result' = AlreadyHeld(l)
                    /\ UNCHANGED <<store, local, pc, lapsed>>
     ]_vars

\* C6 witness: L1 holds k1 and its second acquire was rejected
C6_Witness ==
  /\ result = AlreadyHeld("L1")
  /\ locked["L1"] /\ key["L1"] = "k1" /\ "L1" \in acquiredLocks
  /\ pc["L1"] = "idle"

\* C7: when the entry written by acquire(k) lapsed (deleted, expired, or
\* overwritten) before the server runs the script of release(), the script
\* answers 0 and release rejects with LockReleaseError 'Lock on k had
\* expired', the instance unlocked, its key null, out of the registry.
C7_ReleaseOnMismatch ==
  [][\A l \in Locks :
       /\ (Executes(l, "del") /\ lapsed[l]) => res'[l] = "0"
       /\ (Settles(l, "del") /\ lapsed[l] /\ res[l] # "err") => res[l] = "0"
       /\ (Settles(l, "del") /\ res[l] = "0")
            => /\ result' = HadExpired(l, "release", argKey[l])
               /\ locked[l] /\ key[l] = argKey[l]
               /\ Unlocked(l)'
     ]_vars

\* C7 witness: k1 was overwritten under L1, whose release just rejected
C7_Witness ==
  /\ result = HadExpired("L1", "release", "k1")
  /\ Unlocked("L1")
  /\ store["k1"].val = Mismatch

\* C8: when the entry written by acquire(k) lapsed before the server runs
\* the script of extend(t), the script answers 0 and extend rejects with
\* LockExtendError 'Lock on k had expired', the instance unlocked, its key
\* null, out of the registry; no step of the call changes the store.
C8_ExtendOnMismatch ==
  [][\A l \in Locks :
       /\ (Executes(l, "pexpire") /\ lapsed[l])
            => res'[l] = "0" /\ store' = store
       /\ (Settles(l, "pexpire") /\ res[l] = "0")
            => /\ result' = HadExpired(l, "extend", argKey[l])
               /\ locked[l] /\ key[l] = argKey[l]
               /\ Unlocked(l)'
               /\ store' = store
     ]_vars

\* C8 witness: k2 was overwritten under L2, whose extend just rejected; the
\* foreign entry is as it was written
C8_Witness ==
  /\ result = HadExpired("L2", "extend", "k2")
  /\ Unlocked("L2")
  /\ store["k2"] = [val |-> Mismatch, ttl |-> NoExpiry]

\* C9: release on an unlocked instance rejects in the call itself with
\* LockReleaseError 'Lock has not been acquired': no script is sent and
\* neither the instance nor the store changes; a release that the store
\* answered leaves the instance unlocked, so a second release in a row
\* fails this way.
C9_ReleaseNotIdempotent ==
  [][\A l \in Locks :
       /\ (pc[l] = "idle" /\ ~locked[l])
            => /\ pc'[l] # "del"
               /\ (result' # result /\ result'.lock = l /\ result'.op = "release")
                    => /\ result' = NotAcquired(l, "release")
                       /\ UNCHANGED <<store, local, pc, lapsed>>
       /\ (Settles(l, "del") /\ res[l] # "err") => ~locked'[l]
     ]_vars

\* C9 witness: the release of the unlocked L2 was rejected
C9_Witness ==
  /\ result = NotAcquired("L2", "release")
  /\ Unlocked("L2")
  /\ pc["L2"] = "idle"

\* C10: extend(t), t a positive integer, on a locked instance whose key
\* holds its id when the server runs the script: the script answers 1, the
\* key's lease becomes t and its value stays the id, and extend resolves
\* with the instance locked on the same key and in the registry.
C10_SuccessfulExtend ==
  [][\A l \in Locks :
       /\ (Executes(l, "pexpire") /\ store[argKey[l]].val = id(l) /\ argTime[l] > 0)
            => /\ res'[l] = "1"
               /\ store' = [store EXCEPT ![argKey[l]] =
                              [val |-> id(l), ttl |-> argTime[l]]]
       /\ (Settles(l, "pexpire") /\ res[l] = "1")
            => /\ result' = Resolved(l, "extend")
               /\ locked[l] /\ key[l] = argKey[l] /\ l \in acquiredLocks
               /\ UNCHANGED local
     ]_vars

\* C10 witness: L1, whose timeout is 1, extended its lease on k1 to 2
C10_Witness ==
  /\ result = Resolved("L1", "extend")
  /\ locked["L1"] /\ key["L1"] = "k1" /\ "L1" \in acquiredLocks
  /\ timeout["L1"] = 1
  /\ store["k1"] = [val |-> id("L1"), ttl |-> 2]

IntRequired(l) ==
  Rejected(l, "extend", LockExtendError("Int time is required to extend lock"))

\* a time the specification accepts for extend: a positive integer
PositiveInteger(time) == time.type = "number" /\ time.v > 0

\* C11: extend(t) with t missing, zero, negative or not an integer is
\* rejected in the call itself with LockExtendError 'Int time is required
\* to extend lock', sends no command, and leaves the instance's state, key,
\* registry entry and the store as they were, locked or not.
C11_ExtendArgumentValidation ==
  [][\A l \in Locks : \A time \in TimeArgs :
       (Extend(l, time) /\ ~PositiveInteger(time))
         => /\ result' = IntRequired(l)
            /\ pc'[l] = "idle"
            /\ UNCHANGED <<store, local, lapsed>>
     ]_vars

\* C12: extend on an unlocked instance is rejected in the call itself with
\* LockExtendError, sends no command and changes nothing: 'Lock has not
\* been acquired' for a positive integer time, the integer-time error for
\* any other time.
C12_ExtendWhenUnlocked ==
  [][\A l \in Locks : \A time \in TimeArgs :
       (Extend(l, time) /\ ~locked[l])
         => /\ result' = IF PositiveInteger(time)
                           THEN NotAcquired(l, "extend")
                           ELSE IntRequired(l)
            /\ pc'[l] = "idle"
            /\ UNCHANGED <<store, local, lapsed>>
     ]_vars

\* C13: an acquire of an instance created with retries = N >= 0 sends its
\* first SET in the call and one more after each delay; a SET the server
\* executes while the key is held is refused; a refused SET is followed by
\* a delay while fewer than N + 1 were sent, and the N + 1st refusal rejects
\* the call with 'Could not acquire lock on <key>'.  So a call that finds
\* the key held at every attempt sends exactly N + 1 SETs, and with N = 0
\* it sends one and never waits.
C13_BoundedRetries ==
  [][\A l \in Locks : retries[l] >= 0 =>
       /\ (pc[l] = "idle" /\ pc'[l] = "set") => attempts'[l] = 1
       /\ (pc[l] = "delay" /\ pc'[l] = "set") => attempts'[l] = attempts[l] + 1
       /\ attempts'[l] <= retries[l] + 1
       /\ (Executes(l, "set") /\ store[argKey[l]] # NoEntry)
            => res'[l] = "nil" /\ store' = store
       /\ (pc[l] = "setReply" /\ res[l] = "nil" /\ pc'[l] # pc[l])
            => IF attempts[l] = retries[l] + 1
                 THEN /\ result' = CouldNotAcquire(l, argKey[l])
                      /\ pc'[l] = "idle"
                      /\ Unlocked(l)'
                 ELSE pc'[l] = "delay" /\ result' = NoResult
       /\ retries[l] = 0 => pc'[l] # "delay"
     ]_vars

\* C13 witness: L2, created with retries 1, was refused k1 twice while L1
\* held it, and its acquire was rejected
C13_Witness ==
  /\ result = CouldNotAcquire("L2", "k1")
  /\ retries["L2"] = 1
  /\ Holding("L1", "k1")
  /\ store["k1"].val = id("L1")

\* C14: an acquire with retries = N >= 1 whose SET was refused while fewer
\* than N + 1 were sent waits and sends the SET for the same key again; a
\* later SET that the server executes when the key is free is accepted and
\* writes the id with the instance's timeout; and on that reply the call
\* resolves with the instance locked on the key and registered.
C14_RetrySuccess ==
  [][\A l \in Locks : retries[l] >= 1 =>
       /\ (pc[l] = "setReply" /\ res[l] = "nil" /\ attempts[l] < retries[l] + 1
             /\ pc'[l] # pc[l])
            => pc'[l] = "delay" /\ argKey'[l] = argKey[l] /\ UNCHANGED local
       /\ (pc[l] = "delay" /\ pc'[l] # pc[l])
            => /\ pc'[l] = "set" /\ argKey'[l] = argKey[l]
               /\ attempts'[l] \in 2..(retries[l] + 1)
       /\ (Executes(l, "set") /\ attempts[l] >= 2 /\ store[argKey[l]] = NoEntry)
            => /\ res'[l] = "OK"
               /\ store' = [store EXCEPT ![argKey[l]] =
                              [val |-> id(l), ttl |-> timeout[l]]]
       /\ (Settles(l, "set") /\ attempts[l] >= 2 /\ res[l] = "OK")
            => /\ result' = Resolved(l, "acquire")
               /\ locked'[l] /\ key'[l] = argKey[l] /\ l \in acquiredLocks'
     ]_vars

\* C14 witness: L2, created with retries 1, was refused k1, which L1 held;
\* L1 released it during the delay, and L2's second SET was accepted
C14_Witness ==
  /\ pc["L2"] = "setReply" /\ res["L2"] = "OK"
  /\ retries["L2"] = 1 /\ attempts["L2"] = 2
  /\ argKey["L2"] = "k1"
  /\ result = Resolved("L1", "release")
  /\ store["k1"] = [val |-> id("L2"), ttl |-> timeout["L2"]]

\* C15: an acquire with retries = -1 is never rejected for contention: a
\* refused SET is always followed by the delay and the delay by a SET for
\* the same key; the waiting call does send its next SET; and a SET sent
\* while the key is free leads to the instance locked on the key, unless the
\* key is taken again before the server executes the SET or the store
\* answers with an error.
C15_UnboundedRetries ==
  /\ [][\A l \in Locks : retries[l] = -1 =>
          /\ \A k \in Keys : result' # CouldNotAcquire(l, k)
          /\ (pc[l] = "setReply" /\ res[l] = "nil" /\ pc'[l] # pc[l])
               => pc'[l] = "delay" /\ argKey'[l] = argKey[l]
          /\ (pc[l] = "delay" /\ pc'[l] # pc[l])
               => pc'[l] = "set" /\ argKey'[l] = argKey[l]
       ]_vars
  /\ \A l \in Locks :
       (retries[l] = -1 /\ pc[l] = "delay" /\ rem[l] - 1 >= -1 - MaxUnbounded)
         ~> (pc[l] = "set")
  /\ \A l \in Locks :
       (retries[l] = -1 /\ pc[l] = "set" /\ store[argKey[l]] = NoEntry)
         ~> \/ locked[l]
            \/ pc[l] = "set" /\ store[argKey[l]] # NoEntry
            \/ pc[l] = "setReply" /\ res[l] = "err"

\* C15 witness: L2, created with retries -1, was refused k1 while L1's lease
\* ran; the lease expired during the delay and L2's second SET was accepted
C15_Witness ==
  /\ retries["L2"] = -1 /\ attempts["L2"] = 2
  /\ pc["L2"] = "setReply" /\ res["L2"] = "OK" /\ argKey["L2"] = "k1"
  /\ locked["L1"] /\ key["L1"] = "k1" /\ lapsed["L1"]
  /\ store["k1"].val = id("L2")

StoreFailed(l, op) ==
  Rejected(l, op, [name |-> CASE op = "acquire" -> "LockAcquisitionError"
                              [] op = "release" -> "LockReleaseError"
                              [] op = "extend" -> "LockExtendError",
                   message |-> RedisError.message])

\* C16: when the store answers a SET of an acquire with an error, at the
\* first attempt or a later one and whatever retries the instance was
\* created with, the call's next step rejects it with a
\* LockAcquisitionError carrying the store's message: no delay, no further
\* SET, the instance unlocked and the store untouched.
C16_StoreErrorEndsAcquire ==
  [][\A l \in Locks :
       /\ (pc[l] = "set" /\ res'[l] = "err") => store' = store
       /\ (pc[l] = "setReply" /\ res[l] = "err" /\ pc'[l] # pc[l])
            => /\ result' = StoreFailed(l, "acquire")
               /\ pc'[l] = "idle"
               /\ attempts'[l] = 0
               /\ Unlocked(l)'
               /\ store' = store
     ]_vars

\* C16 witness: the store answered a SET of L2, created with retries -1,
\* with an error, and L2's acquire was rejected with the store's message
C16_Witness ==
  /\ result = StoreFailed("L2", "acquire")
  /\ retries["L2"] = -1
  /\ Unlocked("L2") /\ pc["L2"] = "idle"

ErrorOf(op) ==
  CASE op = "acquire" -> "LockAcquisitionError"
    [] op = "release" -> "LockReleaseError"
    [] op = "extend" -> "LockExtendError"

\* C17: whenever a call is rejected, the error handed to the caller is of
\* the kind of its operation: LockAcquisitionError for acquire,
\* LockReleaseError for release, LockExtendError for extend, also when the
\* failure began as an error of the store.
C17_ErrorKindPerOperation ==
  result.name \notin {NoResult.name, "resolved"} => result.name = ErrorOf(result.op)

\* C17 witness: the store answered the script of L1's extend with an error,
\* and the extend was rejected with a LockExtendError carrying its message
C17_Witness ==
  /\ result = [lock |-> "L1", op |-> "extend", name |-> "LockExtendError",
               message |-> RedisError.message]
  /\ locked["L1"] /\ key["L1"] = "k1"

\* C18: whenever a release() called on a locked instance completes, on a
\* match, on no match or on an error of the store, the instance is
\* unlocked, its key null, and it is out of the registry.
C18_ReleaseLocallyTerminal ==
  [][\A l \in Locks : Settles(l, "del") => Unlocked(l)']_vars

\* the registry as getAcquiredLocks() returns it
getAcquiredLocks == acquiredLocks

\* C19: getAcquiredLocks() is the set of instances between a
\* successful acquire and the next release() of the instance: an instance
\* enters it exactly when its acquire resolves, leaves it only when a
\* release() of it completes, and is out of it whenever its release()
\* has completed.
C19_RegistryBetweenAcquireAndRelease ==
  /\ getAcquiredLocks = {}
  /\ [][\A l \in Locks :
          /\ (l \notin getAcquiredLocks /\ l \in getAcquiredLocks')
               <=> result' = Resolved(l, "acquire")
          /\ (l \in getAcquiredLocks /\ l \notin getAcquiredLocks')
               => (result'.lock = l /\ result'.op = "release")
          /\ (result'.lock = l /\ result'.op = "release")
               => l \notin getAcquiredLocks'
       ]_vars

\* C20: an entry an instance wrote in the store is eventually gone unless
\* the instance calls release() or extend() on it: a holder that crashed
\* does not keep the key.  And once the entry of a holder that still
\* believes it holds k is gone, the SET of another instance's acquire(k)
\* that the server executes on the free key is accepted, and that acquire
\* resolves with the other instance locked on k.
C20_LeaseExpiry ==
  /\ \A l \in Locks : \A k \in Keys :
       (store[k].val = id(l))
         ~> (store[k].val # id(l) \/ pc[l] \in {"del", "pexpire"})
  /\ [][\A a \in Locks : \A b \in Locks \ {a} :
          /\ (Executes(b, "set") /\ locked[a] /\ key[a] = argKey[b] /\ lapsed[a]
                /\ store[argKey[b]] = NoEntry)
               => /\ res'[b] = "OK"
                  /\ store'[argKey[b]] = [val |-> id(b), ttl |-> timeout[b]]
          /\ (Settles(b, "set") /\ res[b] = "OK" /\ locked[a] /\ key[a] = argKey[b])
               => /\ result' = Resolved(b, "acquire")
                  /\ locked'[b] /\ key'[b] = argKey[b]
       ]_vars

\* C20 witness: L1 acquired k1 and made no call since; its entry is gone,
\* and L2's acquire of k1 resolved while L1 still believes it holds k1
C20_Witness ==
  /\ result = Resolved("L2", "acquire")
  /\ locked["L2"] /\ key["L2"] = "k1" /\ store["k1"].val = id("L2")
  /\ locked["L1"] /\ key["L1"] = "k1" /\ lapsed["L1"] /\ pc["L1"] = "idle"

\* the SET of l's acquire of k was accepted, and the entry it wrote has not
\* been released, expired or rewritten since
Owns(l, k) ==
  \/ pc[l] = "setReply" /\ res[l] = "OK" /\ argKey[l] = k /\ ~lapsed[l]
  \/ Holding(l, k)

\* C21: of the instances racing for a key, the one whose SET the store
\* executes first on the free key wins; while the entry it wrote is alive
\* and unreleased the key carries its id, so no two instances own the same
\* key; every SET of another instance executed meanwhile is refused, and
\* that instance then waits for a retry or is rejected with
\* LockAcquisitionError.
C21_RacingAcquires ==
  /\ [](\A a \in Locks : \A k \in Keys :
          Owns(a, k) => /\ store[k].val = id(a)
                        /\ \A b \in Locks \ {a} : ~Owns(b, k))
  /\ [][\A a \in Locks : \A b \in Locks \ {a} :
          /\ (Executes(b, "set") /\ Owns(a, argKey[b]))
               => res'[b] = "nil" /\ store' = store
          /\ (Executes(b, "set") /\ res'[b] = "OK")
               => ~Owns(a, argKey[b]) /\ store[argKey[b]] = NoEntry
          /\ (pc[b] = "setReply" /\ res[b] = "nil" /\ pc'[b] # pc[b])
               => \/ pc'[b] = "delay" /\ result' = NoResult
                  \/ result' = CouldNotAcquire(b, argKey[b]) /\ Unlocked(b)'
       ]_vars

\* C21 witness: L1 and L2 both sent their first SET for k1; the store
\* executed L2's first and refused L1's
C21_Witness ==
  /\ pc["L2"] = "setReply" /\ res["L2"] = "OK" /\ argKey["L2"] = "k1"
  /\ pc["L1"] = "setReply" /\ res["L1"] = "nil" /\ argKey["L1"] = "k1"
  /\ attempts["L1"] = 1 /\ attempts["L2"] = 1
  /\ store["k1"].val = id("L2")

\* C22: an instance whose release() completed, resolved or rejected with
\* 'had expired', is unlocked and idle, and an acquire of any key by it
\* sends the SET; no step changes an instance's id, and every accepted SET
\* of the instance writes that id.
C22_InstanceReuse ==
  /\ [](\A l \in Locks :
          (result \in {Resolved(l, "release")}
                        \cup {HadExpired(l, "release", k) : k \in Keys})
            => /\ Unlocked(l) /\ pc[l] = "idle"
               /\ \A k \in Keys :
                    ENABLED (Acquire(l, k) /\ pc'[l] = "set" /\ argKey'[l] = k))
  /\ [][\A l \in Locks :
          /\ lockId'[l] = lockId[l]
          /\ lockId[l] = v1(l)
          /\ (Executes(l, "set") /\ res'[l] = "OK")
               => store'[argKey[l]].val = lockId[l]
       ]_vars

\* C22 witness: L1's release() was rejected because its lock had expired;
\* L1 is idle and unlocked, and its acquire of either key can go ahead
C22_Witness ==
  /\ result = HadExpired("L1", "release", "k1")
  /\ Unlocked("L1") /\ pc["L1"] = "idle"
  /\ \A k \in Keys : ENABLED (Acquire("L1", k) /\ pc'["L1"] = "set")
  /\ lockId["L1"] = v1("L1")

\* a javascript number without fractional part
IsInteger(v) == v.type = "number"

\* C23: setDefaults(options) can always be called; it leaves Lock._defaults
\* with the keys timeout, retries and delay and nothing else; a key that
\* options has with a value other than null and undefined gets an integer;
\* every other default, every instance and the registry stay as they were.
C23_SetDefaults ==
  /\ [](\A o \in OptionObjects : ENABLED SetDefaults(o))
  /\ [][\A o \in OptionObjects :
          SetDefaults(o)
            => /\ DOMAIN defaults' = DefaultKeys
               /\ \A k \in DefaultKeys :
                    IF In(k, o) /\ o[k] \notin {JsNull, Undefined}
                      THEN IsInteger(defaults'[k])
                      ELSE defaults'[k] = defaults[k]
               /\ UNCHANGED <<options, local, lockId, created>>
       ]_vars

\* the timeout, retries and delay of instance l
settings(l) == [timeout |-> timeout[l], retries |-> retries[l], delay |-> delay[l]]

\* C24: the constructor gives an instance, for each of timeout, retries and
\* delay, the value its options hold under that key if the key is present,
\* and otherwise the default in force at that moment; no later step, a
\* setDefaults in particular, changes the settings of an instance that
\* exists.
C24_SettingsFixedAtConstruction ==
  [][\A l \in Locks :
       /\ \A o \in OptionObjects :
            CreateLock(l, o)
              => \A k \in DefaultKeys :
                   settings(l)'[k] = IF In(k, o) THEN o[k] ELSE defaults[k]
       /\ (l \notin created /\ l \in created')
            => \E o \in OptionObjects : CreateLock(l, o)
       /\ l \in created => l \in created' /\ settings(l)' = settings(l)
     ]_vars

\* C24 witness: L1 was created without a timeout of its own and L2 with
\* timeout 999 and no delay; setDefaults has since changed the default
\* timeout and delay, and both instances keep what construction gave them
C24_Witness ==
  /\ created = Locks
  /\ timeout["L1"] = LockDefaults.timeout /\ timeout["L2"] = Number(999)
  /\ delay["L2"] = LockDefaults.delay
  /\ defaults.timeout = NaN /\ defaults.delay = Number(2)

\* C25: in every reachable state, an instance's key is not null if and only
\* if the instance is locked.
C25_KeyIffLocked ==
  \A l \in Locks : (key[l] # Null) <=> locked[l]

\* C25 witness: L1 is locked on k2; L2, whose SET for k1 the store has
\* accepted but whose promise has not settled, is not locked and has no key
C25_Witness ==
  /\ locked["L1"] /\ key["L1"] = "k2"
  /\ ~locked["L2"] /\ key["L2"] = Null
  /\ pc["L2"] = "setReply" /\ res["L2"] = "OK" /\ argKey["L2"] = "k1"

\* C26: with the mock, release reads the key in one command and deletes it
\* in another: the DEL runs only after a GET that read the instance's own
\* id, and removes whatever the key holds by then, so it can remove the
\* entry another instance wrote after the first one's lease expired.  With
\* the script the comparison and the delete are one step of the server:
\* a release changes the store only where the key holds the releasing
\* instance's id, and never removes an entry carrying another id.
C26_AtomicCompareAndAct ==
  [][\A a \in Locks :
       /\ (shavaluator = RedisEvalsha /\ Executes(a, "del"))
            => /\ store' # store => store[argKey[a]].val = id(a)
               /\ store[argKey[a]].val # id(a) => store' = store /\ res'[a] = "0"
       /\ (pc[a] = "del" /\ pc'[a] = "delGot")
            => /\ shavaluator = MockShavaluator
               /\ store[argKey[a]].val = id(a)
               /\ store' = store
       /\ (pc[a] = "delGot" /\ pc'[a] # pc[a])
            => /\ pc'[a] = "delReply" /\ res'[a] = "1"
               /\ store' = [store EXCEPT ![argKey[a]] = NoEntry]
       /\ \A b \in Locks \ {a} :
            (pc[a] \in {"del", "delGot"} /\ pc'[a] = "delReply"
               /\ store[argKey[a]].val = id(b) /\ store'[argKey[a]] = NoEntry)
              => shavaluator = MockShavaluator /\ pc[a] = "delGot"
     ]_vars

\* C26 witness: with the mock, L1's release read its own id at k1; then
\* L1's lease expired and L2 acquired k1; the DEL of L1's release is the
\* next command of that call, and k1 holds L2's id
C26_Witness ==
  /\ shavaluator = MockShavaluator
  /\ pc["L1"] = "delGot" /\ argKey["L1"] = "k1" /\ lapsed["L1"]
  /\ Holding("L2", "k1")
  /\ store["k1"].val = id("L2")

\* C27: while an instance created with retries -1 acquires, every attempt
\* is made with the retries parameter -1: the value is handed from one
\* attempt to the next as it is.
C27_SentinelNotDecremented ==
  [][\A l \in Locks :
       (retries[l] = -1 /\ pc'[l] = "set") => rem'[l] = -1
     ]_vars

\* C28: within one acquire the first SET is sent in the step of the call,
\* with no wait before it; every later SET is sent when one wait of
\* lock.delay has elapsed, and that wait began at the refusal of the SET
\* before it; the attempt that ends the call settles it with no wait after
\* it; and lock.delay is the same for every wait of the call.
C28_RetryPacing ==
  [][\A l \in Locks :
       /\ (pc[l] = "idle" /\ pc'[l] # "idle")
            => pc'[l] # "delay" /\ timer'[l] = 0
       /\ attempts'[l] = attempts[l] + 1
            => /\ pc'[l] = "set"
               /\ \/ pc[l] = "idle" /\ attempts[l] = 0 /\ timer[l] = 0
                  \/ pc[l] = "delay" /\ attempts[l] >= 1 /\ timer[l] = delay[l]
       /\ (pc[l] # "delay" /\ pc'[l] = "delay")
            => /\ pc[l] = "setReply" /\ Falsy(res[l]) /\ rem[l] # 0
               /\ timer'[l] = delay[l]
               /\ attempts'[l] = attempts[l]
       /\ (pc[l] = "delay" /\ pc'[l] # "delay")
            => pc'[l] = "set" /\ timer'[l] = 0
       /\ (pc[l] = "delay" /\ pc'[l] = "delay") => timer'[l] = timer[l]
       /\ Settles(l, "set") => pc'[l] = "idle" /\ timer'[l] = 0
       /\ pc[l] # "delay" => timer[l] = 0
       /\ delay'[l] = delay[l]
     ]_vars

\* the second SET of an acquire is in flight, one wait after the first
C28_Witness ==
  /\ pc["L2"] = "set" /\ attempts["L2"] = 2 /\ timer["L2"] = 0
  /\ retries["L2"] = 1 /\ rem["L2"] = 0
  /\ pc["L1"] = "delay" /\ timer["L1"] = delay["L1"] /\ attempts["L1"] = 2

\* the value of KEYS[1] equals ARGV[1] for the evaluating client
Matches(l) ==
  store[argKey[l]] # NoEntry /\ store[argKey[l]].val = id(l)

\* C29: whatever the store, KEYS[1] and ARGV[1]: delifequal replies 1 and
\* removes the key when the key's value equals ARGV[1], and otherwise
\* replies 0 and leaves the store as it was; pexpireifequal replies 1 and
\* sets the key's lease to ARGV[2] when the value equals ARGV[1] (a lease
\* that is not positive is over at once and the key is gone), and
\* otherwise replies 0 and leaves the store as it was; no key that is
\* still in the store has another value than before.
C29_ScriptContracts ==
  [][\A l \in Locks :
       LET k == argKey[l] IN
       /\ pc'[l] \in {"delifequalRan", "delifequalAgain"}
            => IF Matches(l)
                 THEN res'[l] = "1" /\ store'[k] = NoEntry
                      /\ \A o \in Keys \ {k} : store'[o] = store[o]
                 ELSE res'[l] = "0" /\ store' = store
       /\ pc'[l] \in {"pexpireifequalRan", "pexpireifequalAgain"}
            => IF Matches(l)
                 THEN /\ res'[l] = "1"
                      /\ store'[k] = IF argTime[l] > 0
                                       THEN [val |-> store[k].val,
                                             ttl |-> argTime[l]]
                                       ELSE NoEntry
                      /\ \A o \in Keys \ {k} : store'[o] = store[o]
                 ELSE res'[l] = "0" /\ store' = store
       /\ \A o \in Keys :
            store'[o] # NoEntry => store'[o].val = store[o].val
     ]_vars

\* pexpireifequal found its value under a key with another lease and said 1
C29_Witness ==
  /\ pc[Evaluator] = "pexpireifequalRan" /\ res[Evaluator] = "1"
  /\ argTime[Evaluator] = MaxTime
  /\ store[argKey[Evaluator]] = [val |-> id(Evaluator), ttl |-> MaxTime]
  /\ \E o \in Keys : store[o].val \notin {id(Evaluator), "nil"}

\* C30: whatever the store, KEYS[1], ARGV[1] and ARGV[2], a script that is
\* evaluated again right after itself, with the same arguments, leaves the
\* store as its first evaluation left it.
C30_ScriptsIdempotent ==
  [][\A l \in Locks :
       \A script \in {"delifequal", "pexpireifequal"} :
         (pc[l] \in {script \o "Ran", script \o "Again"}
            /\ pc'[l] = script \o "Again")
           => store' = store /\ argKey'[l] = argKey[l]
              /\ lockId'[l] = lockId[l] /\ argTime'[l] = argTime[l]
     ]_vars

\* pexpireifequal has run twice in a row on a key that carries ARGV[1]
C30_Witness ==
  /\ pc[Evaluator] = "pexpireifequalAgain" /\ res[Evaluator] = "1"
  /\ argTime[Evaluator] = 1
  /\ store[argKey[Evaluator]] = [val |-> id(Evaluator), ttl |-> 1]

\* C31: an instance enters the registry only in the step in which its
\* acquire resolves, and leaves it only in a step in which its release
\* completes: no extend, no acquire that fails, no setDefaults and no
\* createLock adds or removes an entry.
C31_RegistryOnlyAcquireAndRelease ==
  [][/\ \A l \in Locks :
          /\ (l \notin acquiredLocks /\ l \in acquiredLocks')
               => result' = Resolved(l, "acquire")
          /\ (l \in acquiredLocks /\ l \notin acquiredLocks')
               => (result'.lock = l /\ result'.op = "release")
     /\ \A o \in OptionObjects : SetDefaults(o) => UNCHANGED acquiredLocks
     /\ \A l \in Locks : \A o \in OptionObjects :
          CreateLock(l, o) => UNCHANGED acquiredLocks
    ]_vars

\* C31 as the code has it: an instance enters the registry only in the
\* step in which its acquire resolves, and leaves it only in the step in
\* which the store's answer to its release, or the answer 0 to its extend,
\* reaches it; an acquire that is rejected, an extend that resolves or is
\* rejected in the call, setDefaults and createLock leave the registry as
\* it is.
C31_RegistryFrame ==
  [][/\ \A l \in Locks :
          /\ (l \notin acquiredLocks /\ l \in acquiredLocks')
               => result' = Resolved(l, "acquire")
          /\ (l \in acquiredLocks /\ l \notin acquiredLocks')
               => \/ Settles(l, "del") /\ res[l] # "err"
                  \/ Settles(l, "pexpire") /\ Falsy(res[l])
          /\ (result'.lock = l /\ result'.op = "acquire"
                /\ result' # Resolved(l, "acquire"))
               => UNCHANGED acquiredLocks
          /\ (result'.lock = l /\ result'.op = "extend"
                /\ ~(Settles(l, "pexpire") /\ Falsy(res[l])))
               => UNCHANGED acquiredLocks
     /\ \A o \in OptionObjects : SetDefaults(o) => UNCHANGED acquiredLocks
     /\ \A l \in Locks : \A o \in OptionObjects :
          CreateLock(l, o) => UNCHANGED acquiredLocks
    ]_vars

\* the first instance is registered and its extend has just resolved; the
\* second instance was created and the defaults were set in the meantime
C31_Witness ==
  /\ acquiredLocks = {Caller}
  /\ result = Resolved(Caller, "extend")
  /\ created = Locks /\ defaults # LockDefaults
  /\ timeout["L2"] = Number(999)

\* C32: a step of the store's clock, the one that removes an expired key
\* included, changes no instance's locked flag, key or registry entry; an
\* instance whose entry is gone from the store stays locked, with its key
\* and in the registry, through every step but the one in which the
\* store's answer to its release, or the answer 0 to its extend, reaches
\* it, and in that step it is unlocked, its key null, out of the registry.
C32_ExpiryLeavesLocalState ==
  [][/\ Tick => UNCHANGED local
     /\ \A l \in Locks :
          (locked[l] /\ lapsed[l])
            => IF \/ Settles(l, "del") /\ res[l] # "err"
                  \/ Settles(l, "pexpire") /\ Falsy(res[l])
                 THEN Unlocked(l)'
                 ELSE locked'[l] /\ key'[l] = key[l] /\ l \in acquiredLocks'
    ]_vars

\* the lease of the first instance ran out and the second took the key;
\* the first, with no call in flight, is locked on it and registered
C32_Witness ==
  /\ locked["L1"] /\ key["L1"] = "k1" /\ lapsed["L1"] /\ pc["L1"] = "idle"
  /\ "L1" \in acquiredLocks
  /\ store["k1"].val = id("L2") /\ locked["L2"] /\ key["L2"] = "k1"

\* C33: a step of a call on instance a (the call itself, the store's
\* execution of its command, its timer, the settling of its promise)
\* leaves the locked flag, the key, the id, the options and the registry
\* membership of every other instance b as they were.
C33_InstancesIndependent ==
  [][\A a \in Locks : \A b \in Locks \ {a} :
       (pc'[a] # pc[a] \/ result'.lock = a)
         => /\ locked'[b] = locked[b]
            /\ key'[b] = key[b]
            /\ lockId'[b] = lockId[b]
            /\ settings(b)' = settings(b)
            /\ (b \in acquiredLocks') <=> (b \in acquiredLocks)
     ]_vars

\* the release of the first instance has just resolved while the second,
\* locked on another key and registered, has an extend in flight
C33_Witness ==
  /\ result = Resolved("L1", "release") /\ Unlocked("L1")
  /\ locked["L2"] /\ key["L2"] = "k2" /\ "L2" \in acquiredLocks
  /\ pc["L2"] = "pexpire"

\* C34: in every reachable state an instance is in the registry if and
\* only if it is locked, and the registry holds it once: it has as many
\* entries as there are locked instances, under ids that differ.
C34_RegistryTracksLocked ==
  /\ \A l \in Locks : (l \in getAcquiredLocks) <=> locked[l]
  /\ Cardinality(getAcquiredLocks) = Cardinality({l \in Locks : locked[l]})
  /\ \A a \in getAcquiredLocks : \A b \in getAcquiredLocks \ {a} : id(a) # id(b)

\* the first instance is locked and registered; the second, whose extend
\* has just found its lock expired, is neither
C34_Witness ==
  /\ getAcquiredLocks = {"L1"} /\ locked["L1"] /\ ~locked["L2"]
  /\ result = HadExpired("L2", "extend", "k1")

\* l is locked on k and has no release in flight
BelievesHeld(l, k) ==
  locked[l] /\ key[l] = k /\ pc[l] \notin {"del", "delReply"}

\* C35: with no lease running out, no other client writing and no command
\* answered with an error, an instance that is locked on k and has no
\* release in flight finds its id under k in the store; so no two
\* instances are locked on one key with no release in flight.
C35_BeliefMatchesStore ==
  /\ \A l \in Locks : \A k \in Keys :
       BelievesHeld(l, k) => store[k].val = id(l)
  /\ \A a \in Locks : \A b \in Locks \ {a} : \A k \in Keys :
       ~(BelievesHeld(a, k) /\ BelievesHeld(b, k))

\* C36: whenever no call is in flight on an instance, every key of the
\* store that carries the instance's id is the key the instance has
\* recorded, and the instance is locked; so the instance has at most one
\* key in the store.
C36_NoOrphanedKeys ==
  \A l \in Locks :
    pc[l] = "idle"
      => /\ \A k \in Keys :
              store[k].val = id(l) => locked[l] /\ key[l] = k
         /\ Cardinality({k \in Keys : store[k].val = id(l)}) <= 1

\* both instances are idle and locked, each on the key that carries its id;
\* the first has acquired, released and acquired again
C36_Witness ==
  /\ pc["L1"] = "idle" /\ locked["L1"] /\ key["L1"] = "k2"
  /\ store["k2"].val = id("L1") /\ store["k1"].val = id("L2")
  /\ pc["L2"] = "idle" /\ locked["L2"] /\ key["L2"] = "k1"

\* the acquire of l is under way
Acquiring(l) == pc[l] \in {"set", "setReply", "delay"}

\* C37: an acquire of an instance created with retries = N >= 0 has sent
\* at most N + 1 SETs at any moment and at most N when it waits, so it
\* waits at most N times; when it ends it resolves or is rejected with a
\* LockAcquisitionError; and, the store answering every SET and the
\* callbacks and timers running, it does end, whatever the other
\* instances do.
C37_BoundedAcquireTerminates ==
  /\ [](\A l \in Locks : retries[l] >= 0 =>
          /\ attempts[l] <= retries[l] + 1
          /\ pc[l] = "delay" => attempts[l] <= retries[l])
  /\ [][\A l \in Locks :
          (retries[l] >= 0 /\ Acquiring(l) /\ pc'[l] = "idle")
            => /\ result'.lock = l /\ result'.op = "acquire"
               /\ result'.name \in {"resolved", "LockAcquisitionError"}
       ]_vars
  /\ \A l \in Locks :
       (retries[l] >= 0 /\ Acquiring(l)) ~> (pc[l] = "idle")

\* the first instance, created with retries 1, waits after its first SET
\* was refused: the second instance, which retries for ever, holds the key
C37_Witness ==
  /\ retries["L1"] = 1 /\ pc["L1"] = "delay" /\ attempts["L1"] = 1
  /\ argKey["L1"] = "k1" /\ Holding("L2", "k1") /\ retries["L2"] = -1

Held(k) ==
  \/ \E x \in Locks : store[k].val = id(x)
  \/ store[k].val = Mismatch

\* the acquire of l has a SET to send, or one in flight, or one refused
Retrying(l) ==
  \/ pc[l] \in {"set", "delay"}
  \/ pc[l] = "setReply" /\ Falsy(res[l])

\* C39: with redis answering the SETs, the callbacks and timers running
\* and the clock advancing, whenever an instance created with retries -1
\* is acquiring k, k comes to be held: by that instance or by someone
\* else.  The acquirer is never left retrying, or waiting, on a key that
\* stays free.  (An acquire that redis answers with an error ends, and
\* retries no more.)
C39_NoDeadlock ==
  \A l \in Locks :
    (retries[l] = -1 /\ Retrying(l) /\ attempts[l] <= MaxUnbounded)
      ~> \/ Acquiring(l) /\ Held(argKey[l])
         \/ pc[l] = "setReply" /\ res[l] = "err"

\* the second instance, which retries for ever, waits for k1 after a
\* refusal; the lease of the first has run out since and k1 is free
C39_Witness ==
  /\ retries["L2"] = -1 /\ pc["L2"] = "delay" /\ argKey["L2"] = "k1"
  /\ attempts["L2"] = 1 /\ store["k1"] = NoEntry
  /\ locked["L1"] /\ key["L1"] = "k1" /\ lapsed["L1"]

====
